---- MODULE Spec2Model ----
(***************************************************************************)
(* A model of src/src/lmsps/server.py: the PowerShell bridge's tools       *)
(* (ps_run, cwd, cd, env_get, env_set, ping), its output decoder           *)
(* (_ensure_text / _decode_stream) and its result trimmer (_trim).         *)
(*                                                                         *)
(* Python values are tagged records: [k |-> "none"], [k |-> "int", v],     *)
(* [k |-> "str", v] and [k |-> "bytes", v].  A str is the sequence of its  *)
(* code points and a bytes object the sequence of its bytes (0..255), so   *)
(* len(), slicing and concatenation are Len, SubSeq and \o.                *)
(***************************************************************************)
EXTENDS Integers, Sequences, FiniteSets, TLC

VARIABLES
    environ,    \* os.environ: name -> Python value (none when the name is unset)
    cwd,        \* _STATE["cwd"], a str
    env,        \* _STATE["env"], the session overlay: name -> Python value
    locale,     \* locale.getpreferredencoding(False), a codec name
    op,         \* the last operation and its inputs
    proc,       \* the subprocess.run call of the last operation, if it made one
    logs,       \* the _log calls of the last operation, in order, each ok or failed
    ret         \* what the last operation did: its return value or the exception

vars == <<environ, cwd, env, locale, op, proc, logs, ret>>

-----------------------------------------------------------------------------
(* Bounds of the model.                                                    *)

MaxStr == 4      \* longest text given to _trim
MaxTrim == 3     \* largest trim bound given to _trim
MaxBytes == 4    \* longest byte buffer over ByteAlphabet given to the decoder
MaxText == 2     \* longest text encoded as UTF-16 for the decoder
MaxDepth == 2    \* most components in a path given to cd

-----------------------------------------------------------------------------
(* Python values.                                                          *)

PyNone == [k |-> "none"]
PyInt(i) == [k |-> "int", v |-> i]
PyStr(s) == [k |-> "str", v |-> s]
PyBytes(b) == [k |-> "bytes", v |-> b]

LF == <<10>>     \* "\n"

\* str(i) of an int, as an f-string formats it.
RECURSIVE Digits(_)
Digits(i) == IF i < 10 THEN <<48 + i>> ELSE Digits(i \div 10) \o <<48 + (i % 10)>>

IntToStr(i) == IF i < 0 THEN <<45>> \o Digits(0 - i) ELSE Digits(i)

\* All sequences over S of length at most n.
SeqsUpTo(S, n) == UNION {[1..m -> S] : m \in 0..n}

-----------------------------------------------------------------------------
(* _trim                                                                   *)

\* "\n...[trimmed {removed} chars]"
TrimMarker(removed) ==
    LF \o <<46, 46, 46, 91, 116, 114, 105, 109, 109, 101, 100, 32>>     \* "...[trimmed "
    \o IntToStr(removed) \o <<32, 99, 104, 97, 114, 115, 93>>             \* " chars]"

\* _trim with the marker stating the length of s instead of what was removed.
trimStatesLength(s, n) ==
    IF Len(s) <= n THEN s ELSE SubSeq(s, 1, n) \o TrimMarker(Len(s))

_trim(s, n) ==
    IF Len(s) <= n THEN s ELSE SubSeq(s, 1, n) \o TrimMarker(Len(s) - n)

-----------------------------------------------------------------------------
(* bytes.decode: the codecs _decode_stream tries.  A decoding is           *)
(* [ok |-> TRUE, text |-> the str] or DecodeError (UnicodeDecodeError).    *)

DecodeError == [ok |-> FALSE, text |-> <<>>]
Decoded(t) == [ok |-> TRUE, text |-> t]

BOM == 65279             \* U+FEFF
REPLACEMENT == 65533     \* U+FFFD, what errors="replace" substitutes

IsHighSurrogate(u) == 55296 <= u /\ u <= 56319    \* D800..DBFF
IsLowSurrogate(u) == 56320 <= u /\ u <= 57343     \* DC00..DFFF

\* The 16-bit code unit at bytes i, i+1 of b in the given byte order.
Unit16(b, i, le) == IF le THEN b[i] + 256 * b[i + 1] ELSE 256 * b[i] + b[i + 1]

\* UTF-16 decoding of b from byte i on: truncated data (an odd byte left) and
\* unpaired surrogates are errors.
RECURSIVE Utf16From(_, _, _)
Utf16From(b, i, le) ==
    IF i > Len(b) THEN Decoded(<<>>)
    ELSE IF i = Len(b) THEN DecodeError
    ELSE LET u == Unit16(b, i, le) IN
         IF IsLowSurrogate(u) THEN DecodeError
         ELSE IF IsHighSurrogate(u)
         THEN IF i + 3 > Len(b) THEN DecodeError
              ELSE LET u2 == Unit16(b, i + 2, le) IN
                   IF ~IsLowSurrogate(u2) THEN DecodeError
                   ELSE LET rest == Utf16From(b, i + 4, le) IN
                        IF rest.ok
                        THEN Decoded(<<65536 + (u - 55296) * 1024 + (u2 - 56320)>>
                                     \o rest.text)
                        ELSE DecodeError
         ELSE LET rest == Utf16From(b, i + 2, le) IN
              IF rest.ok THEN Decoded(<<u>> \o rest.text) ELSE DecodeError

StartsWith(b, p) == Len(b) >= Len(p) /\ SubSeq(b, 1, Len(p)) = p

BOM_LE == <<255, 254>>   \* b"\xff\xfe"
BOM_BE == <<254, 255>>   \* b"\xfe\xff"
BOM_UTF8 == <<239, 187, 191>>   \* b"\xef\xbb\xbf"

\* "utf-16": a byte-order mark selects the order and is consumed; without one
\* the order is the machine's, little-endian on the hosts PowerShell runs on.
DecodeUtf16(b) ==
    IF StartsWith(b, BOM_LE) THEN Utf16From(b, 3, TRUE)
    ELSE IF StartsWith(b, BOM_BE) THEN Utf16From(b, 3, FALSE)
    ELSE Utf16From(b, 1, TRUE)

DecodeUtf16LE(b) == Utf16From(b, 1, TRUE)
DecodeUtf16BE(b) == Utf16From(b, 1, FALSE)

IsCont(b, i) == i <= Len(b) /\ 128 <= b[i] /\ b[i] <= 191

\* The well-formed UTF-8 sequence starting at byte i of b: [n |-> its length,
\* cp |-> its code point], or n = 0 with bad = the number of bytes that the
\* ill-formed sequence takes (its maximal valid prefix, at least one byte).
Utf8At(b, i) ==
    LET c == b[i]
        second(lo, hi) == i + 1 <= Len(b) /\ lo <= b[i + 1] /\ b[i + 1] <= hi
        ill(k) == [n |-> 0, cp |-> 0, bad |-> k]
        well(k, v) == [n |-> k, cp |-> v, bad |-> 0]
    IN  IF c < 128 THEN well(1, c)
        ELSE IF 194 <= c /\ c <= 223
        THEN IF IsCont(b, i + 1)
             THEN well(2, (c - 192) * 64 + (b[i + 1] - 128))
             ELSE ill(1)
        ELSE IF 224 <= c /\ c <= 239
        THEN LET lo == IF c = 224 THEN 160 ELSE 128
                 hi == IF c = 237 THEN 159 ELSE 191
             IN  IF ~second(lo, hi) THEN ill(1)
                 ELSE IF ~IsCont(b, i + 2) THEN ill(2)
                 ELSE well(3, (c - 224) * 4096 + (b[i + 1] - 128) * 64
                              + (b[i + 2] - 128))
        ELSE IF 240 <= c /\ c <= 244
        THEN LET lo == IF c = 240 THEN 144 ELSE 128
                 hi == IF c = 244 THEN 143 ELSE 191
             IN  IF ~second(lo, hi) THEN ill(1)
                 ELSE IF ~IsCont(b, i + 2) THEN ill(2)
                 ELSE IF ~IsCont(b, i + 3) THEN ill(3)
                 ELSE well(4, (c - 240) * 262144 + (b[i + 1] - 128) * 4096
                              + (b[i + 2] - 128) * 64 + (b[i + 3] - 128))
        ELSE ill(1)

\* UTF-8 decoding of b from byte i on; with replace, each ill-formed sequence
\* becomes one U+FFFD, and without it is an error.
RECURSIVE Utf8From(_, _, _)
Utf8From(b, i, replace) ==
    IF i > Len(b) THEN Decoded(<<>>)
    ELSE LET a == Utf8At(b, i) IN
         IF a.n = 0
         THEN IF replace
              THEN Decoded(<<REPLACEMENT>> \o Utf8From(b, i + a.bad, replace).text)
              ELSE DecodeError
         ELSE LET rest == Utf8From(b, i + a.n, replace) IN
              IF rest.ok THEN Decoded(<<a.cp>> \o rest.text) ELSE DecodeError

DecodeUtf8(b) == Utf8From(b, 1, FALSE)

\* "utf-8-sig": UTF-8 with one leading signature consumed.
DecodeUtf8Sig(b) ==
    IF StartsWith(b, BOM_UTF8) THEN Utf8From(b, 4, FALSE) ELSE Utf8From(b, 1, FALSE)

\* raw.decode("utf-8", errors="replace"): never an error.
DecodeUtf8Replace(b) == Utf8From(b, 1, TRUE).text

\* "cp1252", the Western European Windows code page: 0x80..0x9F are its own
\* (five of them undefined, 0 below), every other byte its Latin-1 code point.
Cp1252High ==
    <<8364, 0, 8218, 402, 8222, 8230, 8224, 8225, 710, 8240, 352, 8249, 338, 0, 381, 0,
      0, 8216, 8217, 8220, 8221, 8226, 8211, 8212, 732, 8482, 353, 8250, 339, 0, 382, 376>>

Cp1252Char(c) == IF 128 <= c /\ c <= 159 THEN Cp1252High[c - 127] ELSE c

DecodeCp1252(b) ==
    IF \E i \in 1..Len(b) : 128 <= b[i] /\ b[i] <= 159 /\ Cp1252High[b[i] - 127] = 0
    THEN DecodeError
    ELSE Decoded([i \in 1..Len(b) |-> Cp1252Char(b[i])])

\* raw.decode(enc) for the codec names _decode_stream uses.
Decode(b, enc) ==
    CASE enc = "utf-16" -> DecodeUtf16(b)
      [] enc = "utf-16-le" -> DecodeUtf16LE(b)
      [] enc = "utf-16-be" -> DecodeUtf16BE(b)
      [] enc = "utf-8-sig" -> DecodeUtf8Sig(b)
      [] enc \in {"utf-8", "UTF-8"} -> DecodeUtf8(b)
      [] enc = "cp1252" -> DecodeCp1252(b)

\* text.lstrip(U+FEFF): every leading U+FEFF is removed.
RECURSIVE LStripBom(_)
LStripBom(t) == IF t # <<>> /\ Head(t) = BOM THEN LStripBom(Tail(t)) ELSE t

-----------------------------------------------------------------------------
(* _decode_stream and _ensure_text                                         *)

\* The codecs with UTF-16 tried first for every buffer, whatever its bytes.
encodingsAlwaysUtf16(raw) ==
    <<"utf-16", "utf-16-le", "utf-16-be", "utf-8-sig", "utf-8">>
    \o (IF locale # "" THEN <<locale>> ELSE <<>>)

\* The codecs in the order _decode_stream tries them.
Encodings(raw) ==
    (IF StartsWith(raw, BOM_LE) \/ StartsWith(raw, BOM_BE)
        \/ \E i \in 1..Len(raw) : raw[i] = 0
     THEN <<"utf-16", "utf-16-le", "utf-16-be">>
     ELSE <<>>)
    \o <<"utf-8-sig", "utf-8">>
    \o (IF locale # "" THEN <<locale>> ELSE <<>>)

\* The loop over the codecs from the i-th on: the first that decodes wins (a
\* name seen before decoded the same bytes to the same error, so skipping it
\* changes nothing), and when none does, the permissive decoding.
RECURSIVE TryEncodings(_, _, _)
TryEncodings(raw, encs, i) ==
    IF i > Len(encs) THEN DecodeUtf8Replace(raw)
    ELSE IF \E j \in 1..(i - 1) : encs[j] = encs[i] THEN TryEncodings(raw, encs, i + 1)
    ELSE LET d == Decode(raw, encs[i]) IN
         IF d.ok THEN LStripBom(d.text) ELSE TryEncodings(raw, encs, i + 1)

_decode_stream(raw) == IF raw = <<>> THEN <<>> ELSE TryEncodings(raw, Encodings(raw), 1)

\* data is a Python value: None, a str, a bytes object, or another object
\* (an int here), which goes through str().
_ensure_text(data) ==
    IF data.k = "none" \/ (data.k = "int" /\ data.v = 0)
       \/ (data.k \in {"str", "bytes"} /\ data.v = <<>>)
    THEN <<>>
    ELSE IF data.k = "str" THEN data.v
    ELSE IF data.k = "bytes" THEN _decode_stream(data.v)
    ELSE IntToStr(data.v)

-----------------------------------------------------------------------------
(* Configuration read from os.environ                                      *)

\* str.isspace() of one character.
IsSpace(c) ==
    \/ c \in 9..13 \/ c \in 28..32 \/ c \in {133, 160, 5760, 8232, 8233, 8239, 8287, 12288}
    \/ c \in 8192..8202

RECURSIVE LStrip(_)
LStrip(t) == IF t # <<>> /\ IsSpace(Head(t)) THEN LStrip(Tail(t)) ELSE t

RECURSIVE RStrip(_)
RStrip(t) ==
    IF t # <<>> /\ IsSpace(t[Len(t)]) THEN RStrip(SubSeq(t, 1, Len(t) - 1)) ELSE t

\* str.strip()
Strip(t) == RStrip(LStrip(t))

\* The code point of the digit zero of every decimal-digit run of Unicode
\* (category Nd: ASCII, Arabic-Indic, Devanagari, ..., fullwidth, mathematical);
\* the ten digits of a run follow each other from its zero.
DigitZeros ==
    {48, 1632, 1776, 1984, 2406, 2534, 2662, 2790, 2918, 3046, 3174, 3302, 3430, 3558,
     3664, 3792, 3872, 4160, 4240, 6112, 6160, 6470, 6608, 6784, 6800, 6992, 7088, 7232,
     7248, 42528, 43216, 43264, 43472, 43504, 43600, 44016, 65296, 66720, 68912, 69734,
     69872, 69942, 70096, 70384, 70736, 70864, 71248, 71360, 71472, 71904, 72016, 72784,
     73040, 73120, 92768, 92864, 93008, 120782, 120792, 120802, 120812, 120822, 123200,
     123632, 125264, 130032}

\* A character int() reads as a decimal digit.
IsDigit(c) == \E z \in DigitZeros : z <= c /\ c <= z + 9

\* The value of the decimal digit c.
DigitOf(c) == c - (CHOOSE z \in DigitZeros : z <= c /\ c <= z + 9)

RECURSIVE DigitsValue(_, _)
DigitsValue(t, acc) ==
    IF t = <<>> THEN acc
    ELSE IF Head(t) = 95 THEN DigitsValue(Tail(t), acc)
    ELSE DigitsValue(Tail(t), 10 * acc + DigitOf(Head(t)))

\* The whitespace int() skips around a str: the ASCII whitespace of C
\* (space, \t, \n, \v, \f, \r) and every Unicode whitespace above U+007F;
\* unlike str.strip(), not the separators U+001C..U+001F.
IsIntSpace(c) == \/ c \in 9..13 \/ c = 32 \/ (c > 127 /\ IsSpace(c))

RECURSIVE LStripInt(_)
LStripInt(t) == IF t # <<>> /\ IsIntSpace(Head(t)) THEN LStripInt(Tail(t)) ELSE t

RECURSIVE RStripInt(_)
RStripInt(t) ==
    IF t # <<>> /\ IsIntSpace(t[Len(t)]) THEN RStripInt(SubSeq(t, 1, Len(t) - 1)) ELSE t

\* int() refuses a literal of more decimal digits than this.
INT_MAX_STR_DIGITS == 4300

\* int(text): surrounding whitespace, an optional sign, then decimal digits with
\* single underscores between them; [ok |-> FALSE] is the ValueError.
ParseInt(text) ==
    LET t == RStripInt(LStripInt(text))
        signed == t # <<>> /\ Head(t) \in {43, 45}
        body == IF signed THEN Tail(t) ELSE t
        wellFormed ==
            /\ body # <<>>
            /\ IsDigit(body[1]) /\ IsDigit(body[Len(body)])
            /\ \A i \in 1..Len(body) : IsDigit(body[i]) \/ body[i] = 95
            /\ \A i \in 1..(Len(body) - 1) : ~(body[i] = 95 /\ body[i + 1] = 95)
            /\ Cardinality({i \in 1..Len(body) : body[i] # 95}) <= INT_MAX_STR_DIGITS
    IN  IF ~wellFormed THEN [ok |-> FALSE, v |-> 0]
        ELSE [ok |-> TRUE,
              v |-> IF signed /\ Head(t) = 45 THEN 0 - DigitsValue(body, 0)
                    ELSE DigitsValue(body, 0)]

\* int(value) of a Python value: an int as it is, a str parsed, bytes parsed as
\* the ASCII text they hold (no byte above 0x7F is a digit or whitespace), None
\* a TypeError.
ToInt(value) ==
    CASE value.k = "int" -> [ok |-> TRUE, v |-> value.v]
      [] value.k = "str" -> ParseInt(value.v)
      [] value.k = "bytes" ->
            IF \E i \in 1..Len(value.v) : value.v[i] > 127 THEN [ok |-> FALSE, v |-> 0]
            ELSE ParseInt(value.v)
      [] OTHER -> [ok |-> FALSE, v |-> 0]

DEFAULT_TIMEOUT_SEC == 30
DEFAULT_TRIM_CHARS == 500
DEFAULT_MAX_COMMAND_CHARS == 8192

\* Every limit is read with minimum=1.
_get_env_int(name, default, minimum) ==
    LET raw == environ[name] IN
    IF raw.k = "none" THEN default
    ELSE LET value == ToInt(raw) IN
         IF ~value.ok THEN default
         ELSE IF value.v < minimum THEN minimum
         ELSE value.v

_coerce_positive_int(value, fallback) ==
    IF value.k = "none" THEN fallback
    ELSE LET candidate == ToInt(value) IN
         IF ~candidate.ok THEN fallback
         ELSE IF candidate.v <= 0 THEN fallback
         ELSE candidate.v

DEFAULT_POWERSHELL_PATH ==
    <<67, 58, 92, 92, 87, 105, 110, 100, 111, 119, 115, 92, 92, 83, 121, 115, 116, 101,
      109, 51, 50, 92, 92, 87, 105, 110, 100, 111, 119, 115, 80, 111, 119, 101, 114, 83,
      104, 101, 108, 108, 92, 92, 118, 49, 46, 48, 92, 92, 112, 111, 119, 101, 114, 115,
      104, 101, 108, 108, 46, 101, 120, 101>>

\* A str in a boolean context: None and "" are false.
Truthy(value) == value.k # "none" /\ value.v # <<>>

_resolve_powershell_path ==
    IF Truthy(environ["LMSPS_POWERSHELL_PATH"]) THEN environ["LMSPS_POWERSHELL_PATH"].v
    ELSE IF Truthy(environ["LMSPS_PWSH"]) THEN environ["LMSPS_PWSH"].v
    ELSE DEFAULT_POWERSHELL_PATH

\* (timeout_seconds, max_trim_chars)
_command_limits ==
    <<_get_env_int("LMSPS_TIMEOUT_SEC", DEFAULT_TIMEOUT_SEC, 1),
      _get_env_int("LMSPS_TRIM_CHARS", DEFAULT_TRIM_CHARS, 1)>>

_max_command_chars == _get_env_int("LMSPS_MAX_COMMAND_CHARS", DEFAULT_MAX_COMMAND_CHARS, 1)

\* os.environ overridden by the session overlay: dict.update keeps a host
\* entry only where the overlay has none.
\* The merge the other way round: a host value hides the overlay's.
effectiveEnvHostFirst == [name \in DOMAIN environ |->
                            IF environ[name].k # "none" THEN environ[name] ELSE env[name]]

_effective_env == [name \in DOMAIN environ |->
                     IF env[name].k # "none" THEN env[name] ELSE environ[name]]

-----------------------------------------------------------------------------
(* _validate_command                                                       *)

\* "error: invalid-command: "
ERR_INVALID == <<101, 114, 114, 111, 114, 58, 32, 105, 110, 118, 97, 108, 105, 100, 45, 99,
                 111, 109, 109, 97, 110, 100, 58, 32>>
\* "error: invalid-command: command must be a string"
ERR_NOT_STRING ==
    ERR_INVALID \o <<99, 111, 109, 109, 97, 110, 100, 32, 109, 117, 115, 116, 32, 98, 101,
                     32, 97, 32, 115, 116, 114, 105, 110, 103>>
\* "error: invalid-command: command must not be empty"
ERR_EMPTY ==
    ERR_INVALID \o <<99, 111, 109, 109, 97, 110, 100, 32, 109, 117, 115, 116, 32, 110, 111,
                     116, 32, 98, 101, 32, 101, 109, 112, 116, 121>>
\* f"error: invalid-command: command exceeds {max_chars} characters"
ErrTooLong(max_chars) ==
    ERR_INVALID \o <<99, 111, 109, 109, 97, 110, 100, 32, 101, 120, 99, 101, 101, 100, 115,
                     32>>
    \o IntToStr(max_chars) \o <<32, 99, 104, 97, 114, 97, 99, 116, 101, 114, 115>>

\* (error, command_str): error is <<>> for None.
_validate_command(command) ==
    IF command.k # "str" THEN [error |-> ERR_NOT_STRING, command_str |-> <<>>]
    ELSE IF Strip(command.v) = <<>> THEN [error |-> ERR_EMPTY, command_str |-> <<>>]
    ELSE IF Len(command.v) > _max_command_chars
    THEN [error |-> ErrTooLong(_max_command_chars), command_str |-> <<>>]
    ELSE [error |-> <<>>, command_str |-> command.v]

_build_powershell_args(exe, command) ==
    <<exe,
      <<45, 78, 111, 76, 111, 103, 111>>,                                   \* "-NoLogo"
      <<45, 78, 111, 80, 114, 111, 102, 105, 108, 101>>,                    \* "-NoProfile"
      <<45, 78, 111, 110, 73, 110, 116, 101, 114, 97, 99, 116, 105, 118, 101>>,
                                                                            \* "-NonInteractive"
      <<45, 69, 120, 101, 99, 117, 116, 105, 111, 110, 80, 111, 108, 105, 99, 121>>,
                                                                            \* "-ExecutionPolicy"
      <<66, 121, 112, 97, 115, 115>>,                                       \* "Bypass"
      <<45, 67, 111, 109, 109, 97, 110, 100>>,                              \* "-Command"
      command>>

-----------------------------------------------------------------------------
(* tool_ps_run                                                             *)

\* What a call did: it returned a value, or an exception left it.
Return(value) == [kind |-> "return", v |-> value]
Raise(type, msg) == [kind |-> "raise", v |-> [type |-> type, msg |-> msg]]

\* The OSError that open() or write() in _log raises when the write fails.
\* PermissionError("denied")
LogFault ==
    [type |-> <<80, 101, 114, 109, 105, 115, 115, 105, 111, 110, 69, 114, 114, 111, 114>>,
     msg |-> <<100, 101, 110, 105, 101, 100>>]

NotLaunched == [launched |-> FALSE]

\* "\n".join(parts)
RECURSIVE JoinLines(_)
JoinLines(parts) ==
    IF parts = <<>> THEN <<>>
    ELSE IF Len(parts) = 1 THEN parts[1]
    ELSE parts[1] \o LF \o JoinLines(Tail(parts))

\* parts: the streams that are not empty, stdout first.
Parts(stdout, stderr) ==
    (IF stdout # <<>> THEN <<stdout>> ELSE <<>>) \o (IF stderr # <<>> THEN <<stderr>> ELSE <<>>)

\* The text of a completed process before trimming, from its decoded
\* streams: the joined streams, or the placeholder when there are none.
CompletedOut(stdout, stderr, returncode) ==
    IF Parts(stdout, stderr) # <<>> THEN JoinLines(Parts(stdout, stderr))
    ELSE IF returncode = 0 THEN <<40, 111, 107, 41>>                \* "(ok)"
    ELSE <<40, 101, 120, 105, 116, 32>> \o IntToStr(returncode) \o <<41>>   \* "(exit N)"

\* The message of the TimeoutExpired handler, from the decoded partial
\* streams.
TimeoutMsg(stdout, stderr, t, n) ==
    LET decoded == JoinLines(Parts(stdout, stderr))
        \* "timeout after {t}s"
        msg == <<116, 105, 109, 101, 111, 117, 116, 32, 97, 102, 116, 101, 114, 32>>
               \o IntToStr(t) \o <<115>>
    IN  IF decoded # <<>> /\ Strip(decoded) # <<>>
        THEN msg \o LF
             \* "partial output:"
             \o <<112, 97, 114, 116, 105, 97, 108, 32, 111, 117, 116, 112, 117, 116, 58>>
             \o LF \o _trim(Strip(decoded), n)
        ELSE msg

\* f"error: {type(e).__name__}: {e}"
ErrorMsg(e) == <<101, 114, 114, 111, 114, 58, 32>> \o e.type \o <<58, 32>> \o e.msg

\* The body of tool_ps_run, given what its first lines computed: checked is
\* _validate_command's result, t and n the effective limits, exe the
\* interpreter, and stdout and stderr the decoded streams of outcome.
PsRunSteps(checked, t, n, exe, outcome, stdout, stderr, failing) ==
    LET wrote(site) == [site |-> site, ok |-> site \notin failing]
        launch == [launched |-> TRUE,
                   args |-> _build_powershell_args(exe, checked.command_str),
                   cwd |-> cwd, env |-> _effective_env, timeout |-> t,
                   outcome |-> outcome]
        logFailed == Raise(LogFault.type, LogFault.msg)
    IN  IF checked.error # <<>>
        THEN [ret |-> IF "invalid" \in failing THEN logFailed
                      ELSE Return(PyStr(checked.error)),
              proc |-> NotLaunched,
              logs |-> <<wrote("invalid")>>]
        ELSE IF "start" \in failing
        THEN [ret |-> logFailed, proc |-> NotLaunched, logs |-> <<wrote("start")>>]
        ELSE IF outcome.kind = "completed" /\ "done" \notin failing
        THEN [ret |-> Return(PyStr(_trim(CompletedOut(stdout, stderr,
                                                      outcome.returncode), n))),
              proc |-> launch,
              logs |-> <<wrote("start"), wrote("done")>>]
        ELSE IF outcome.kind = "timeout"
        THEN [ret |-> IF "timeout" \in failing THEN logFailed
                      ELSE Return(PyStr(TimeoutMsg(stdout, stderr, t, n))),
              proc |-> launch,
              logs |-> <<wrote("start"), wrote("timeout")>>]
        \* except Exception, for a launch fault or the failed write of the
        \* completion line: the error line is logged, then the message returned.
        ELSE [ret |-> IF "error" \in failing THEN logFailed
                      ELSE Return(PyStr(ErrorMsg(IF outcome.kind = "fault" THEN outcome.e
                                                 ELSE LogFault))),
              proc |-> launch,
              logs |-> <<wrote("start")>>
                       \o (IF outcome.kind = "completed" THEN <<wrote("done")>> ELSE <<>>)
                       \o <<wrote("error")>>]

\* One call of tool_ps_run.  outcome is what subprocess.run does if the call
\* gets to it (the process completes, runs past the timeout, or the launch
\* fails) and failing the _log call sites whose write fails.  The result is
\* [ret, proc, logs]: what the call did, its subprocess.run call and its
\* _log calls.
PsRun(command, timeout_sec, trim_chars, outcome, failing) ==
    PsRunSteps(_validate_command(command),
               _coerce_positive_int(timeout_sec, _command_limits[1]),
               _coerce_positive_int(trim_chars, _command_limits[2]),
               _resolve_powershell_path,
               outcome, _ensure_text(outcome.stdout), _ensure_text(outcome.stderr),
               failing)

\* The process ran to its end.
Completed(returncode, stdout, stderr) ==
    [kind |-> "completed", returncode |-> returncode, stdout |-> stdout, stderr |-> stderr,
     e |-> [type |-> <<>>, msg |-> <<>>]]

\* subprocess.run raised TimeoutExpired with the output captured so far.
TimedOut(stdout, stderr) ==
    [kind |-> "timeout", returncode |-> 0, stdout |-> stdout, stderr |-> stderr,
     e |-> [type |-> <<>>, msg |-> <<>>]]

\* subprocess.run raised another exception.
Fault(type, msg) ==
    [kind |-> "fault", returncode |-> 0, stdout |-> PyNone, stderr |-> PyNone,
     e |-> [type |-> type, msg |-> msg]]

\* The call leaves its result r and changes nothing of the server's state.
PsRunDone(command, timeout_sec, trim_chars, r) ==
    /\ op' = [name |-> "ps_run", command |-> command, timeout_sec |-> timeout_sec,
              trim_chars |-> trim_chars]
    /\ ret' = r.ret
    /\ proc' = r.proc
    /\ logs' = r.logs
    /\ UNCHANGED <<environ, cwd, env, locale>>

tool_ps_run(command, timeout_sec, trim_chars, outcome, failing) ==
    PsRunDone(command, timeout_sec, trim_chars,
              PsRun(command, timeout_sec, trim_chars, outcome, failing))

-----------------------------------------------------------------------------
(* os.path on a POSIX host, and the directories that exist                 *)

SLASH == 47      \* "/"
DOT == 46        \* "."

\* path.split("/")
RECURSIVE SplitSlash(_, _)
SplitSlash(path, cur) ==
    IF path = <<>> THEN <<cur>>
    ELSE IF Head(path) = SLASH THEN <<cur>> \o SplitSlash(Tail(path), <<>>)
    ELSE SplitSlash(Tail(path), Append(cur, Head(path)))

\* "/".join(comps)
RECURSIVE JoinSlash(_)
JoinSlash(comps) ==
    IF comps = <<>> THEN <<>>
    ELSE IF Len(comps) = 1 THEN comps[1]
    ELSE comps[1] \o <<SLASH>> \o JoinSlash(Tail(comps))

isabs(path) == path # <<>> /\ Head(path) = SLASH

\* os.path.join(a, b)
join(a, b) ==
    IF isabs(b) THEN b
    ELSE IF a = <<>> \/ a[Len(a)] = SLASH THEN a \o b
    ELSE a \o <<SLASH>> \o b

\* The loop of normpath over the components left, new_comps so far.
RECURSIVE NormComps(_, _, _)
NormComps(comps, new_comps, absolute) ==
    IF comps = <<>> THEN new_comps
    ELSE LET comp == Head(comps) IN
         IF comp = <<>> \/ comp = <<DOT>> THEN NormComps(Tail(comps), new_comps, absolute)
         ELSE IF \/ comp # <<DOT, DOT>>
                 \/ (~absolute /\ new_comps = <<>>)
                 \/ (new_comps # <<>> /\ new_comps[Len(new_comps)] = <<DOT, DOT>>)
         THEN NormComps(Tail(comps), Append(new_comps, comp), absolute)
         ELSE IF new_comps # <<>>
         THEN NormComps(Tail(comps), SubSeq(new_comps, 1, Len(new_comps) - 1), absolute)
         ELSE NormComps(Tail(comps), new_comps, absolute)

normpath(path) ==
    IF path = <<>> THEN <<DOT>>
    ELSE LET initial_slashes ==
                 IF ~isabs(path) THEN 0
                 ELSE IF StartsWith(path, <<SLASH, SLASH>>)
                         /\ ~StartsWith(path, <<SLASH, SLASH, SLASH>>) THEN 2
                 ELSE 1
             joined == JoinSlash(NormComps(SplitSlash(path, <<>>), <<>>,
                                           initial_slashes > 0))
             result == [i \in 1..initial_slashes |-> SLASH] \o joined
         IN  IF result = <<>> THEN <<DOT>> ELSE result

\* os.getcwd(): the directory the server process was started in; the server
\* never calls os.chdir.
StartDir == <<47, 97>>       \* "/a"

abspath(path) == normpath(IF isabs(path) THEN path ELSE join(StartDir, path))

\* LOGDIR at import: LMSPS_LOGDIR is not set on this host, so the log
\* directory is "logs" under the start directory, and os.makedirs creates it
\* before any tool runs.
LOGDIR == join(StartDir, <<108, 111, 103, 115>>)         \* "/a/logs"

\* The directories of the host, each as its components from the root: "/",
\* "/a", "/a/a" and the log directory.  "/f" and "/a/f" are plain files and
\* every other path is missing: os.path.isdir is False for both.
Dirs == {<<>>, <<<<97>>>>, <<<<97>>, <<97>>>>, SplitSlash(Tail(LOGDIR), <<>>)}

\* Path resolution as stat() does it, component by component from directory
\* at: every component must lead to a directory.  The result is the directory
\* reached, or NoDir (no directory has a component ".") when there is none.
NoDir == <<<<46>>>>

RECURSIVE Walk(_, _)
Walk(comps, at) ==
    IF comps = <<>> THEN at
    ELSE LET comp == Head(comps) IN
         IF comp = <<>> \/ comp = <<DOT>> THEN Walk(Tail(comps), at)
         ELSE IF comp = <<DOT, DOT>>
         THEN Walk(Tail(comps), IF at = <<>> THEN at ELSE SubSeq(at, 1, Len(at) - 1))
         ELSE IF Append(at, comp) \in Dirs THEN Walk(Tail(comps), Append(at, comp))
         ELSE NoDir

\* isdir without the check: every path is taken for a directory.
isdirAlways(path) == TRUE

\* os.path.isdir(path)
isdir(path) ==
    /\ path # <<>>
    /\ Walk(SplitSlash(path, <<>>),
            IF isabs(path) THEN <<>> ELSE SplitSlash(Tail(StartDir), <<>>)) # NoDir

\* _STATE["cwd"] at import: LMSPS_CWD if it is set and not empty, else the
\* start directory, normalised but not checked.
InitialCwd(environment) ==
    normpath(IF Truthy(environment["LMSPS_CWD"]) THEN environment["LMSPS_CWD"].v
             ELSE StartDir)

-----------------------------------------------------------------------------
(* tool_cwd, tool_cd, tool_env_get, tool_env_set, tool_ping                *)

tool_cwd ==
    /\ op' = [name |-> "cwd"]
    /\ ret' = Return(PyStr(cwd))
    /\ proc' = NotLaunched
    /\ logs' = <<>>
    /\ UNCHANGED <<environ, cwd, env, locale>>

\* The target tool_cd checks: an absolute path as given, a relative one
\* resolved against the current cwd.
CdTarget(path) == IF isabs(path) THEN path ELSE abspath(join(cwd, path))

\* new is the target; it is committed only if it is a directory.
CdSteps(path, new) ==
    /\ op' = [name |-> "cd", path |-> path]
    /\ IF ~isdir(new)
       \* raise FileNotFoundError(new)
       THEN /\ ret' = Raise(<<70, 105, 108, 101, 78, 111, 116, 70, 111, 117, 110, 100, 69,
                              114, 114, 111, 114>>, new)
            /\ cwd' = cwd
       ELSE /\ cwd' = normpath(new)
            /\ ret' = Return(PyStr(normpath(new)))
    /\ proc' = NotLaunched
    /\ logs' = <<>>
    /\ UNCHANGED <<environ, env, locale>>

tool_cd(path) == CdSteps(path, CdTarget(path))

\* key is None or a str; without a key the overlay alone is returned.
tool_env_get(key) ==
    /\ op' = [name |-> "env_get", key |-> key]
    /\ ret' = IF key.k # "none"
              THEN Return(IF key.v \in DOMAIN environ /\ _effective_env[key.v].k # "none"
                          THEN _effective_env[key.v]
                          ELSE PyStr(<<>>))
              ELSE Return([k |-> "dict", v |-> env])
    /\ proc' = NotLaunched
    /\ logs' = <<>>
    /\ UNCHANGED <<environ, cwd, env, locale>>

tool_env_set(key, value) ==
    /\ op' = [name |-> "env_set", key |-> key, value |-> value]
    /\ env' = [env EXCEPT ![key] = PyStr(value)]
    /\ ret' = Return(PyStr(<<111, 107>>))        \* "ok"
    /\ proc' = NotLaunched
    /\ logs' = <<>>
    /\ UNCHANGED <<environ, cwd, locale>>

tool_ping ==
    /\ op' = [name |-> "ping"]
    /\ ret' = Return(PyStr(<<112, 111, 110, 103>>))      \* "pong"
    /\ proc' = NotLaunched
    /\ logs' = <<>>
    /\ UNCHANGED <<environ, cwd, env, locale>>

-----------------------------------------------------------------------------
(* The host: its environment and locale.                                   *)

EnvNames == {"LMSPS_TIMEOUT_SEC", "LMSPS_TRIM_CHARS", "LMSPS_MAX_COMMAND_CHARS",
             "LMSPS_POWERSHELL_PATH", "LMSPS_PWSH", "LMSPS_CWD", "PATH", "K"}

\* A host environment: PATH is set, K is not, and the given LMSPS_ settings.
Environ(settings) ==
    [name \in EnvNames |->
        IF name \in DOMAIN settings THEN PyStr(settings[name])
        ELSE IF name = "PATH" THEN PyStr(<<98, 105, 110>>)      \* "bin"
        ELSE PyNone]

NoOverlay == [name \in EnvNames |-> PyNone]

Idle == [name |-> "idle"]
Pending == [kind |-> "pending", v |-> PyNone]

-----------------------------------------------------------------------------
(* The server and its six tools.                                           *)

\* No LMSPS_ setting; LMSPS_CWD="a"; LMSPS_CWD="/a/../zz" and
\* LMSPS_TIMEOUT_SEC="0".
Environs ==
    {Environ(<<>>),
     Environ([LMSPS_CWD |-> <<97>>]),
     Environ([LMSPS_CWD |-> <<47, 97, 47, 46, 46, 47, 122, 122>>,
              LMSPS_TIMEOUT_SEC |-> <<48>>])}

Init ==
    /\ environ \in Environs
    /\ locale = "cp1252"
    /\ cwd = InitialCwd(environ)
    /\ env = NoOverlay
    /\ op = Idle
    /\ ret = Pending
    /\ proc = NotLaunched
    /\ logs = <<>>

\* The paths given to cd: up to MaxDepth components, relative and absolute.
\* ".", "..", "a", "f", "logs"
PathComps == {<<46>>, <<46, 46>>, <<97>>, <<102>>, <<108, 111, 103, 115>>}
CdPaths ==
    LET rel == {JoinSlash(c) : c \in SeqsUpTo(PathComps, MaxDepth)}
    IN  rel \cup {<<SLASH>> \o r : r \in rel}

EnvKeys == {"PATH", "K"}
EnvValues == {<<118>>}        \* "v"

Commands == {PyStr(<<120>>), PyStr(<<32>>)}            \* "x", " "
\* The process prints "ok"; it times out; the launch raises
\* RuntimeError("kaput").
Outcomes ==
    {Completed(0, PyBytes(<<111, 107>>), PyBytes(<<>>)),
     TimedOut(PyNone, PyNone),
     Fault(<<82, 117, 110, 116, 105, 109, 101, 69, 114, 114, 111, 114>>,
           <<107, 97, 112, 117, 116>>)}

Next ==
    \/ \E c \in Commands, o \in Outcomes, f \in {{}, {"start"}} :
           tool_ps_run(c, PyNone, PyNone, o, f)
    \/ tool_cwd
    \/ \E path \in CdPaths : tool_cd(path)
    \/ \E key \in {PyNone, PyStr("K"), PyStr("HOME")} : tool_env_get(key)
    \/ \E value \in EnvValues : tool_env_set("K", value)
    \/ tool_ping

Spec == Init /\ [][Next]_vars

-----------------------------------------------------------------------------
(* ps_run alone, over more commands, process outcomes and log failures.    *)

MaxCmd == 2      \* longest command

\* No LMSPS_ setting; LMSPS_MAX_COMMAND_CHARS="1", LMSPS_TRIM_CHARS the
\* Arabic-Indic digit three (U+0663), LMSPS_TIMEOUT_SEC="abc" and
\* LMSPS_PWSH="pwsh".
RunEnvirons ==
    {Environ(<<>>),
     Environ([LMSPS_MAX_COMMAND_CHARS |-> <<49>>, LMSPS_TRIM_CHARS |-> <<1635>>,
              LMSPS_TIMEOUT_SEC |-> <<97, 98, 99>>,
              LMSPS_PWSH |-> <<112, 119, 115, 104>>])}

RunCommands == {PyInt(123)} \cup {PyStr(c) : c \in SeqsUpTo({32, 120}, MaxCmd)}
\* <<timeout_sec, trim_chars>>: (0, None) and (b"2", the Arabic-Indic digit
\* two U+0662)
RunLimits == {<<PyInt(0), PyNone>>, <<PyBytes(<<50>>), PyStr(<<1634>>)>>}
\* None, b"", b" ", b"boom"
RunStreams == {PyNone, PyBytes(<<>>), PyBytes(<<32>>), PyBytes(<<98, 111, 111, 109>>)}
RunOutcomes ==
    {Completed(rc, so, se) : rc \in {0, 5}, so \in RunStreams, se \in RunStreams}
    \cup {TimedOut(so, se) : so \in RunStreams, se \in RunStreams}
    \* FileNotFoundError("no such file"), RuntimeError("kaput")
    \cup {Fault(<<70, 105, 108, 101, 78, 111, 116, 70, 111, 117, 110, 100, 69, 114, 114,
                  111, 114>>,
                <<110, 111, 32, 115, 117, 99, 104, 32, 102, 105, 108, 101>>),
          Fault(<<82, 117, 110, 116, 105, 109, 101, 69, 114, 114, 111, 114>>,
                <<107, 97, 112, 117, 116>>)}

\* What the host does during a call of tool_ps_run with this command, as
\* <<outcome, failing>> pairs: a rejected command reaches only the
\* invalid-command log line, an accepted one the start line, then the process
\* and the line of its outcome, then the error line if that write fails.
RunHost(command) ==
    IF _validate_command(command).error # <<>>
    THEN {<<TimedOut(PyNone, PyNone), f>> : f \in {{}, {"invalid"}}}
    ELSE {<<TimedOut(PyNone, PyNone), {"start"}>>}
         \cup {<<o, {}>> : o \in RunOutcomes}
         \cup {<<o, f>> : o \in {x \in RunOutcomes : x.kind = "completed"},
                          f \in {{"done"}, {"done", "error"}}}
         \cup {<<o, {"timeout"}>> : o \in {x \in RunOutcomes : x.kind = "timeout"}}
         \cup {<<o, {"error"}>> : o \in {x \in RunOutcomes : x.kind = "fault"}}

InitRun ==
    /\ environ \in RunEnvirons
    /\ locale = "cp1252"
    /\ cwd = InitialCwd(environ)
    /\ env = NoOverlay
    /\ op = Idle
    /\ ret = Pending
    /\ proc = NotLaunched
    /\ logs = <<>>

NextRun ==
    \E c \in RunCommands, lim \in RunLimits :
        \E h \in RunHost(c) : tool_ps_run(c, lim[1], lim[2], h[1], h[2])

SpecRun == InitRun /\ [][NextRun]_vars

-----------------------------------------------------------------------------
(* _trim alone: the input is drawn, then _trim applied to it.              *)

TrimChars == {97, 20320, 128512}     \* "a", a CJK character, an astral character

InitTrim ==
    /\ environ = Environ(<<>>)
    /\ locale = "UTF-8"
    /\ cwd = InitialCwd(environ)
    /\ env = NoOverlay
    /\ op \in {[name |-> "_trim", s |-> s, n |-> n] :
                  s \in SeqsUpTo(TrimChars, MaxStr), n \in 1..MaxTrim}
    /\ ret = Pending
    /\ proc = NotLaunched
    /\ logs = <<>>

ApplyTrim ==
    /\ ret = Pending
    /\ ret' = Return(PyStr(_trim(op.s, op.n)))
    /\ UNCHANGED <<environ, cwd, env, locale, op, proc, logs>>

SpecTrim == InitTrim /\ [][ApplyTrim]_vars

-----------------------------------------------------------------------------
(* _ensure_text alone: the data is drawn, then _ensure_text applied to it. *)

\* NUL, "A", DEL, the first continuation byte, a two-byte lead (also the high
\* byte of a surrogate), the bytes of the UTF-8 signature and of the UTF-16
\* byte-order marks.
ByteAlphabet == {0, 65, 127, 128, 216, 239, 187, 191, 254, 255}

\* "A", U+FEFF, a CJK character, an astral character
TextAlphabet == {65, BOM, 20320, 128512}

\* str.encode("utf-16-le")
RECURSIVE EncodeUtf16LE(_)
EncodeUtf16LE(t) ==
    IF t = <<>> THEN <<>>
    ELSE LET c == Head(t)
             unit(u) == <<u % 256, u \div 256>>
         IN  (IF c >= 65536
              THEN unit(55296 + ((c - 65536) \div 1024)) \o unit(56320 + ((c - 65536) % 1024))
              ELSE unit(c))
             \o EncodeUtf16LE(Tail(t))

DecodeInputs ==
    {PyNone, PyStr(<<>>), PyStr(<<BOM, 65>>)}
    \cup {PyBytes(b) : b \in SeqsUpTo(ByteAlphabet, MaxBytes)}
    \cup {PyBytes(BOM_LE \o EncodeUtf16LE(t)) : t \in SeqsUpTo(TextAlphabet, MaxText)}

InitDecode ==
    /\ environ = Environ(<<>>)
    /\ locale \in {"UTF-8", "cp1252"}
    /\ cwd = InitialCwd(environ)
    /\ env = NoOverlay
    /\ op \in {[name |-> "_ensure_text", data |-> d] : d \in DecodeInputs}
    /\ ret = Pending
    /\ proc = NotLaunched
    /\ logs = <<>>

ApplyEnsureText ==
    /\ ret = Pending
    /\ ret' = Return(PyStr(_ensure_text(op.data)))
    /\ UNCHANGED <<environ, cwd, env, locale, op, proc, logs>>

SpecDecode == InitDecode /\ [][ApplyEnsureText]_vars

-----------------------------------------------------------------------------
(* What is checked of tool_ps_run, under SpecRun.                          *)

EndsWith(b, p) == Len(b) >= Len(p) /\ SubSeq(b, Len(b) - Len(p) + 1, Len(b)) = p

\* p occurs in b.
Contains(b, p) == \E i \in 0..(Len(b) - Len(p)) : SubSeq(b, i + 1, i + Len(p)) = p

\* The state is the one a call of tool_ps_run left, and the call got to
\* subprocess.run, where the process did what kind says.
Ran == op.name = "ps_run"
RanTo(kind) == Ran /\ proc.launched /\ proc.outcome.kind = kind

\* C1: a command the validator rejects (not a string, blank, or longer than
\* the maximum) gets an invalid-command result, and the call does not reach
\* subprocess.run.
C1_RejectedNotLaunched ==
    (Ran /\ _validate_command(op.command).error # <<>>) =>
        /\ ret.kind = "return"
        /\ ret.v.k = "str"
        /\ StartsWith(ret.v.v, ERR_INVALID)
        /\ ~proc.launched

\* C2: when the process completes, the result is the placeholder, "(ok)" for
\* exit code 0 and one citing N for exit code N # 0, exactly when both decoded
\* streams are empty; otherwise it is the streams' text, whitespace-only text
\* included, within the trim length.
C2_PlaceholderIffNoOutput ==
    RanTo("completed") =>
        LET stdout == _ensure_text(proc.outcome.stdout)
            stderr == _ensure_text(proc.outcome.stderr)
            n == _coerce_positive_int(op.trim_chars, _command_limits[2])
            rc == proc.outcome.returncode
        IN  /\ ret.kind = "return"
            /\ ret.v.k = "str"
            /\ IF stdout = <<>> /\ stderr = <<>>
               THEN ret.v.v = (IF rc = 0 THEN <<40, 111, 107, 41>>
                               ELSE <<40, 101, 120, 105, 116, 32>> \o IntToStr(rc) \o <<41>>)
               ELSE ret.v.v = _trim(JoinLines(Parts(stdout, stderr)), n)

\* C3: when the process runs past the timeout t, the call raises nothing and
\* returns a result that states t and, when partial output was captured, ends
\* with the decoded partial output trimmed to the trim length.
C3_TimeoutReported ==
    RanTo("timeout") =>
        LET stdout == _ensure_text(proc.outcome.stdout)
            stderr == _ensure_text(proc.outcome.stderr)
            n == _coerce_positive_int(op.trim_chars, _command_limits[2])
            partial == JoinLines(Parts(stdout, stderr))
            \* "timeout after {t}s"
            stated == <<116, 105, 109, 101, 111, 117, 116, 32, 97, 102, 116, 101, 114, 32>>
                      \o IntToStr(proc.timeout) \o <<115>>
        IN  /\ ret.kind = "return"
            /\ ret.v.k = "str"
            /\ StartsWith(ret.v.v, stated)
            /\ partial # <<>> =>
                   (ret.v.v # stated /\ EndsWith(ret.v.v, _trim(partial, n)))

\* C4: when launching or waiting on the process fails with a fault other than
\* a timeout, the call raises nothing and returns an error result that
\* carries the fault's kind and message.
C4_FaultReturned ==
    RanTo("fault") =>
        /\ ret.kind = "return"
        /\ ret.v.k = "str"
        /\ ret.v.v = <<101, 114, 114, 111, 114, 58, 32>> \o proc.outcome.e.type
                     \o <<58, 32>> \o proc.outcome.e.msg

\* C5: when the process completes with a nonzero exit code, the result is
\* told apart from the result of the same run with exit code 0 and from an
\* error result, and it holds the decoded stderr text.
C5_NonzeroExitClassified ==
    (RanTo("completed") /\ proc.outcome.returncode # 0) =>
        /\ ret.kind = "return"
        /\ ret.v.k = "str"
        /\ ret # PsRun(op.command, op.timeout_sec, op.trim_chars,
                       [proc.outcome EXCEPT !.returncode = 0], {}).ret
        /\ ~StartsWith(ret.v.v, <<101, 114, 114, 111, 114, 58, 32>>)
        /\ Contains(ret.v.v, _ensure_text(proc.outcome.stderr))

\* C6: whichever writes to the log fail, the call raises nothing and returns
\* what it returns when every write succeeds.
C6_LogFailureHarmless ==
    Ran =>
        /\ ret.kind = "return"
        /\ \E o \in RunOutcomes :
               /\ proc.launched => o = proc.outcome
               /\ ret = PsRun(op.command, op.timeout_sec, op.trim_chars, o, {}).ret

-----------------------------------------------------------------------------
(* What is checked of the decoder, under SpecDecode.                       *)

\* The state is the one _ensure_text left for a bytes object, for b.
DecodedAny == op.name = "_ensure_text" /\ ret.kind = "return" /\ op.data.k = "bytes"
DecodedBytes(b) == DecodedAny /\ op.data = PyBytes(b)

IsAscii(b) == \A i \in 1..Len(b) : b[i] <= 127
HasNul(b) == \E i \in 1..Len(b) : b[i] = 0

\* C7 as stated: every buffer of ASCII bytes, of any length and with or
\* without NUL bytes, decodes to the same characters.
C7_AsciiUnchanged ==
    (DecodedAny /\ IsAscii(op.data.v)) => ret.v.v = op.data.v

\* C7 amended: every buffer of ASCII bytes that has no NUL byte or has an odd
\* length decodes to the same characters.
C7_AsciiUnchangedUnlessUtf16 ==
    (DecodedAny /\ IsAscii(op.data.v) /\ (~HasNul(op.data.v) \/ Len(op.data.v) % 2 = 1)) =>
        ret.v.v = op.data.v

\* An ASCII buffer of odd length with a NUL byte in it, decoded to itself.
C7_Witness == DecodedBytes(<<65, 0, 127>>) /\ ret.v.v = <<65, 0, 127>>

\* C8: the UTF-16 little-endian byte-order mark followed by the UTF-16LE
\* encoding of a text T decodes to T, also when T is empty or begins with
\* U+FEFF.
C8_Utf16RoundTrip ==
    \A t \in SeqsUpTo(TextAlphabet, MaxText) :
        DecodedBytes(BOM_LE \o EncodeUtf16LE(t)) => ret.v.v = t

-----------------------------------------------------------------------------
(* What is checked of _trim, under SpecTrim.                               *)

\* C9: for a bound n >= 1, _trim returns s itself when s has at most n
\* characters, and otherwise the first n characters of s followed by a marker
\* whose stated count is exactly Len(s) - n, lengths counted in characters.
C9_TrimContract ==
    (op.name = "_trim" /\ ret.kind = "return" /\ op.n >= 1) =>
        LET s == op.s
            n == op.n
            r == ret.v.v
            \* "\n...[trimmed " and " chars]"
            before == <<10, 46, 46, 46, 91, 116, 114, 105, 109, 109, 101, 100, 32>>
            after == <<32, 99, 104, 97, 114, 115, 93>>
            marker == SubSeq(r, n + 1, Len(r))
            count == SubSeq(marker, Len(before) + 1, Len(marker) - Len(after))
        IN  IF Len(s) <= n THEN r = s
            ELSE /\ SubSeq(r, 1, n) = SubSeq(s, 1, n)
                 /\ StartsWith(marker, before)
                 /\ EndsWith(marker, after)
                 /\ count # <<>>
                 /\ \A i \in 1..Len(count) : count[i] \in 48..57
                 /\ DigitsValue(count, 0) = Len(s) - n

\* A text of characters outside ASCII, longer than the bound, trimmed.
C9_Witness ==
    /\ op.name = "_trim" /\ ret.kind = "return"
    /\ Len(op.s) > op.n + 1
    /\ \E i \in 1..Len(op.s) : op.s[i] > 65535
    /\ Len(ret.v.v) > Len(op.s)

-----------------------------------------------------------------------------
(* What is checked of the working directory, under Spec.                   *)

\* "FileNotFoundError"
NotFound == <<70, 105, 108, 101, 78, 111, 116, 70, 111, 117, 110, 100, 69, 114, 114, 111, 114>>

\* The path of a directory that exists, normalised.
IsDirectory(path) == \E d \in Dirs : path = <<SLASH>> \o JoinSlash(d)

\* C10: in every step, a tool other than cd leaves cwd as it is; a cd whose
\* target (the path if absolute, else resolved against the current cwd) is
\* missing or not a directory raises the not-found failure and leaves cwd as
\* it is; and a cd that returns has set cwd to the normalised absolute
\* target, a directory that exists.  So cwd is always its initial value or
\* the target of the last cd that returned.
C10_CwdOnlyByCd ==
    [][IF op'.name # "cd" THEN cwd' = cwd
       ELSE LET target == IF isabs(op'.path) THEN op'.path
                          ELSE abspath(join(cwd, op'.path))
            IN  IF ret'.kind = "return"
                THEN /\ cwd' = normpath(target)
                     /\ isabs(cwd')
                     /\ IsDirectory(cwd')
                     /\ ret'.v = PyStr(cwd')
                ELSE /\ ret' = Raise(NotFound, target)
                     /\ ~IsDirectory(target)
                     /\ cwd' = cwd]_vars

\* A relative cd from a directory other than the initial one has moved cwd
\* to a third directory.
C10_Witness ==
    /\ op.name = "cd" /\ ret.kind = "return"
    /\ ~isabs(op.path)
    /\ Contains(op.path, <<DOT, DOT, SLASH>>)
    /\ cwd = <<47, 97, 47, 97>>
    /\ cwd # InitialCwd(environ)

-----------------------------------------------------------------------------
(* env_set, env_get and ps_run alone, over more overlay values.            *)

\* PATH="bin" and K unset; PATH="bin" and K="h".
EnvEnvirons == {Environ(<<>>), Environ([K |-> <<104>>])}

\* "v", "w", ""
EnvSetValues == {<<118>>, <<119>>, <<>>}

InitEnv ==
    /\ environ \in EnvEnvirons
    /\ locale = "cp1252"
    /\ cwd = InitialCwd(environ)
    /\ env = NoOverlay
    /\ op = Idle
    /\ ret = Pending
    /\ proc = NotLaunched
    /\ logs = <<>>

NextEnv ==
    \/ \E key \in EnvKeys, value \in EnvSetValues : tool_env_set(key, value)
    \/ \E key \in {PyNone} \cup {PyStr(k) : k \in EnvKeys \cup {"HOME"}} : tool_env_get(key)
    \/ \E c \in Commands, o \in Outcomes, f \in {{}, {"start"}} :
           tool_ps_run(c, PyNone, PyNone, o, f)

SpecEnv == InitEnv /\ [][NextEnv]_vars

-----------------------------------------------------------------------------
(* What is checked of the environment, under SpecEnv.                      *)

\* What reading name gives: the overlay's value if it has one, else the
\* host's, else none.
Merged(name) ==
    IF name \in DOMAIN env /\ env[name].k # "none" THEN env[name]
    ELSE IF name \in DOMAIN environ THEN environ[name]
    ELSE PyNone

\* C11: in every step, the host environment stays as it is; env_set puts its
\* value in the overlay under its key and leaves the other keys, and no other
\* tool changes the overlay; env_get(key) returns the overlay's value for key
\* (the latest one set) if there is one, else the host's, else the empty
\* string; and the environment handed to a process ps_run launches is the
\* host environment with the overlay's values over it.
C11_EnvOverlay ==
    [][/\ environ' = environ
       /\ IF op'.name = "env_set"
          THEN env' = [name \in DOMAIN env |->
                          IF name = op'.key THEN PyStr(op'.value) ELSE env[name]]
          ELSE env' = env
       /\ (op'.name = "env_get" /\ op'.key.k = "str") =>
              ret' = Return(IF Merged(op'.key.v).k # "none" THEN Merged(op'.key.v)
                            ELSE PyStr(<<>>))
       /\ (op'.name = "ps_run" /\ proc'.launched) =>
              \A name \in DOMAIN environ : proc'.env[name] = Merged(name)]_vars

\* PATH, set by the host, was set to "v" and then to "w", and env_get("PATH")
\* has returned "w".
C11_Witness ==
    /\ op.name = "env_get" /\ op.key = PyStr("PATH")
    /\ environ["PATH"] = PyStr(<<98, 105, 110>>)
    /\ env["PATH"] = PyStr(<<119>>)
    /\ env["K"] = PyStr(<<>>)
    /\ ret = Return(PyStr(<<119>>))

====
